---- MODULE Spec2Model ----
(***************************************************************************)
(* State-machine model of shark::MeanModel (weighted ensemble) and of the  *)
(* regularizer part of shark::ErrorFunction.                               *)
(*                                                                         *)
(* A C++ double is modelled as a binary floating-point number with         *)
(* MantBits bits of precision and round-to-nearest, ties-to-even (IEEE     *)
(* binary64 has 53 bits).  All modelled values are integers, so the only   *)
(* rounding that occurs is the rounding of a sum, difference or product    *)
(* whose exact value needs more than MantBits significant bits.  A         *)
(* quotient a / b is kept as the pair <<a, b>> of its operands, which      *)
(* determines the double the division produces.                            *)
(***************************************************************************)
EXTENDS Integers, Sequences, FiniteSets, TLC

\* ------------------------------------------------------------- bounds
MantBits  == 3      \* bits of precision of the modelled double
MaxModels == 2      \* cap on the number of sub-models
MaxRows   == 2      \* cap on the rows of an input batch
MaxDim    == 3      \* cap on the declared output dimension
ModelCols == 2      \* columns a continuous sub-model produces

ModelIds   == {1, 2}              \* the sub-models that can be added
Inputs     == {0, 1}              \* the values of an input row
AddWeights == {-1, 0, 1, 16}      \* weights passed to addModel
SetWeights == {0, 1, 16}          \* weights passed to setWeight
Dims       == 0 .. MaxDim
Kinds      == {"RealVector", "unsigned int"}

\* ------------------------------------------------ double arithmetic
RECURSIVE Pow2(_)
Pow2(n) == IF n = 0 THEN 1 ELSE 2 * Pow2(n - 1)

\* the spacing of the doubles around the magnitude m
RECURSIVE Ulp(_, _)
Ulp(m, u) == IF m \div u < Pow2(MantBits) THEN u ELSE Ulp(m, 2 * u)

\* round a magnitude to the nearest double, ties to the even mantissa
RoundMag(m) ==
    LET u   == Ulp(m, 1)
        q   == m \div u
        rem == m - q * u
    IN  IF 2 * rem < u THEN q * u
        ELSE IF 2 * rem > u THEN (q + 1) * u
        ELSE IF q % 2 = 0 THEN q * u ELSE (q + 1) * u

fl(x) == IF x < 0 THEN 0 - RoundMag(0 - x) ELSE RoundMag(x)

fadd(a, b) == fl(a + b)
fsub(a, b) == fl(a - b)
fmul(a, b) == fl(a * b)

\* ------------------------------------------------------------ state
VARIABLES
    kind,          \* ModelType::OutputType, fixed when the template is instantiated
    m_models,      \* std::vector<ModelType>: the sub-models, by id
    m_weight,      \* RealVector: one weight per sub-model
    m_weightSum,   \* double: the stored sum of the weights
    m_outputDim,   \* std::size_t: the declared output dimension
    declaredDim,   \* history: the value last passed to setOutputSize, -1 if none
    call,          \* the last MeanModel call: its arguments, outcome and result
    mp_wrapper,    \* ErrorFunction: the wrapped dataset / model / loss
    m_regularizer, \* ErrorFunction: the regularizer, 0 for the null pointer
    m_regularizationStrength,  \* ErrorFunction: the regularization factor
    efCall         \* the last ErrorFunction call and its result

meanVars == <<kind, m_models, m_weight, m_weightSum, m_outputDim, declaredDim, call>>
efVars   == <<mp_wrapper, m_regularizer, m_regularizationStrength, efCall>>
vars     == <<kind, m_models, m_weight, m_weightSum, m_outputDim, declaredDim, call,
              mp_wrapper, m_regularizer, m_regularizationStrength, efCall>>

\* ---------------------------------------------------------- matrices
\* RealMatrix: size1 rows, size2 columns, 0-based element access
Cells(r, c) == (0 .. r - 1) \X (0 .. c - 1)

EmptyMatrix == [size1 |-> 0, size2 |-> 0, elem |-> [ix \in Cells(0, 0) |-> 0]]

FilledMatrix(r, c, v) == [size1 |-> r, size2 |-> c, elem |-> [ix \in Cells(r, c) |-> v]]

\* outputs(p, c)
At(M, p, c) == M.elem[<<p, c>>]

\* outputs.resize(r, c): the elements that stay in range keep their value
Resize(M, r, c) ==
    [size1 |-> r, size2 |-> c,
     elem  |-> [ix \in Cells(r, c) |->
                   IF ix[1] < M.size1 /\ ix[2] < M.size2 THEN M.elem[ix] ELSE 0]]

\* outputs.clear(): every element becomes 0
Clear(M) == [M EXCEPT !.elem = [ix \in DOMAIN M.elem |-> 0]]

\* variant: the sub-model outputs are added without their weight
PlusAssignUnscaled(M, w, Y) ==
    [M EXCEPT !.elem = [ix \in DOMAIN M.elem |-> fadd(M.elem[ix], Y.elem[ix])]]

\* noalias(outputs) += w * Y
PlusAssignScaled(M, w, Y) ==
    [M EXCEPT !.elem = [ix \in DOMAIN M.elem |-> fadd(M.elem[ix], fmul(w, Y.elem[ix]))]]

\* outputs /= d: every element becomes the quotient element / d
DivAssign(M, d) == [M EXCEPT !.elem = [ix \in DOMAIN M.elem |-> <<M.elem[ix], d>>]]

\* the buffer a caller hands to eval: it holds an earlier, smaller result
OldBuffers == {FilledMatrix(1, 1, 5)}

\* -------------------------------------------------------- sub-models
\* The sub-models are deterministic functions of the input row.
\* class predicted by discrete sub-model k for input row x
Predict(k, x) == (k - 1) * (1 - x) + 2 * x

\* column c of the output of continuous sub-model k for input row x
Value(k, x, c) == (k * (x + 1) + c) % 4

\* m_models[i].eval(patterns, responses)
ModelEvalUInt(k, patterns) ==
    [p \in 0 .. Len(patterns) - 1 |-> Predict(k, patterns[p + 1])]

\* m_models[i](patterns)
ModelEvalReal(k, patterns) ==
    [size1 |-> Len(patterns), size2 |-> ModelCols,
     elem  |-> [ix \in Cells(Len(patterns), ModelCols) |->
                   Value(k, patterns[ix[1] + 1], ix[2])]]

Batches == UNION {[1 .. n -> Inputs] : n \in 1 .. MaxRows}

\* ------------------------------------------------------------ checks
\* SHARK_RUNTIME_CHECK(cond, msg): throws unless cond holds
SHARK_RUNTIME_CHECK(cond) == cond

\* SIZE_CHECK(cond): reports a size mismatch unless cond holds
SIZE_CHECK(cond) == cond

\* the shape check of noalias(outputs) += ...: both operands have the same shape
SameShape(M, Y) == SIZE_CHECK(M.size1 = Y.size1 /\ M.size2 = Y.size2)

\* --------------------------------------------------------- accessors
numberOfModels == Len(m_models)

weight(i) == m_weight[i + 1]

outputSize == m_outputDim

\* -------------------------------------------------------------- eval
\* doEval(patterns, outputs, tag<RealVector>), from sub-model i on
RECURSIVE doEvalRealFrom(_, _, _)
doEvalRealFrom(patterns, outputs, i) ==
    IF i = Len(m_models)
    THEN [outputs |-> DivAssign(outputs, m_weightSum), threw |-> FALSE]
    ELSE LET y == ModelEvalReal(m_models[i + 1], patterns)
         IN  IF ~SameShape(outputs, y)
             THEN [outputs |-> outputs, threw |-> TRUE]
             ELSE doEvalRealFrom(patterns, PlusAssignScaled(outputs, m_weight[i + 1], y), i + 1)

doEvalReal(patterns, outputs) == doEvalRealFrom(patterns, outputs, 0)

\* variant: no SIZE_CHECK, a vote for a class out of range is dropped
RECURSIVE VoteRowsFromUnchecked(_, _, _, _)
VoteRowsFromUnchecked(outputs, responses, w, p) ==
    IF p = outputs.size1
    THEN [outputs |-> outputs, threw |-> FALSE]
    ELSE VoteRowsFromUnchecked(
             IF <<p, responses[p]>> \in DOMAIN outputs.elem
             THEN [outputs EXCEPT !.elem[<<p, responses[p]>>] = fadd(@, w)]
             ELSE outputs,
             responses, w, p + 1)

\* the inner loop of doEval(..., tag<unsigned int>): the rows from p on
RECURSIVE VoteRowsFrom(_, _, _, _)
VoteRowsFrom(outputs, responses, w, p) ==
    IF p = outputs.size1
    THEN [outputs |-> outputs, threw |-> FALSE]
    ELSE IF ~SIZE_CHECK(responses[p] < m_outputDim)
         THEN [outputs |-> outputs, threw |-> TRUE]
         ELSE VoteRowsFrom(
                  [outputs EXCEPT !.elem[<<p, responses[p]>>] = fadd(@, w)],
                  responses, w, p + 1)

\* doEval(patterns, outputs, tag<unsigned int>), from sub-model i on
RECURSIVE doEvalUIntFrom(_, _, _)
doEvalUIntFrom(patterns, outputs, i) ==
    IF i = Len(m_models)
    THEN [outputs |-> DivAssign(outputs, m_weightSum), threw |-> FALSE]
    ELSE LET responses == ModelEvalUInt(m_models[i + 1], patterns)
             r == VoteRowsFrom(outputs, responses, m_weight[i + 1], 0)
         IN  IF r.threw THEN r ELSE doEvalUIntFrom(patterns, r.outputs, i + 1)

doEvalUInt(patterns, outputs) == doEvalUIntFrom(patterns, outputs, 0)

\* variant: the buffer is resized but not cleared
evalNoClear(patterns, outputs) ==
    LET resized == Resize(outputs, Len(patterns), m_outputDim)
    IN  IF kind = "RealVector"
        THEN doEvalReal(patterns, resized)
        ELSE doEvalUInt(patterns, resized)

\* eval(patterns, outputs): the buffer after the call and whether it threw
eval(patterns, outputs) ==
    LET cleared == Clear(Resize(outputs, Len(patterns), m_outputDim))
    IN  IF kind = "RealVector"
        THEN doEvalReal(patterns, cleared)
        ELSE doEvalUInt(patterns, cleared)

\* ----------------------------------------------------------- actions
NoCall(op) == [op |-> op, weight |-> 0, patterns |-> <<>>,
               outputs |-> EmptyMatrix, threw |-> FALSE]

\* MeanModel(): m_weightSum(0); m_outputDim is left uninitialised and holds
\* an arbitrary value (every value of Dims is also reached by setOutputSize)
InitMean ==
    /\ kind \in Kinds
    /\ m_models = <<>>
    /\ m_weight = <<>>
    /\ m_weightSum = 0
    /\ m_outputDim \in {0, MaxDim}
    /\ declaredDim = -1
    /\ call = NoCall("MeanModel")

clearModels ==
    /\ m_models' = <<>>
    /\ m_weight' = <<>>
    /\ m_weightSum' = 0
    /\ call' = NoCall("clearModels")
    /\ UNCHANGED <<kind, m_outputDim, declaredDim>>

\* variant: the model is stored before the weight is checked
addModelPushFirst(model, w) ==
    /\ Len(m_models) < MaxModels
    /\ m_models' = Append(m_models, model)
    /\ m_weight' = Append(m_weight, w)
    /\ IF ~SHARK_RUNTIME_CHECK(w > 0)
       THEN /\ call' = [NoCall("addModel") EXCEPT !.weight = w, !.threw = TRUE]
            /\ UNCHANGED m_weightSum
       ELSE /\ call' = [NoCall("addModel") EXCEPT !.weight = w]
            /\ m_weightSum' = fadd(m_weightSum, w)
    /\ UNCHANGED <<kind, m_outputDim, declaredDim>>

\* variant: the output dimension follows the number of sub-models
addModelSetsDim(model, w) ==
    IF ~SHARK_RUNTIME_CHECK(w > 0)
    THEN /\ call' = [NoCall("addModel") EXCEPT !.weight = w, !.threw = TRUE]
         /\ UNCHANGED <<kind, m_models, m_weight, m_weightSum, m_outputDim, declaredDim>>
    ELSE /\ Len(m_models) < MaxModels
         /\ m_models' = Append(m_models, model)
         /\ m_weight' = Append(m_weight, w)
         /\ m_weightSum' = fadd(m_weightSum, w)
         /\ m_outputDim' = Len(m_models) + 1
         /\ call' = [NoCall("addModel") EXCEPT !.weight = w]
         /\ UNCHANGED <<kind, declaredDim>>

addModel(model, w) ==
    IF ~SHARK_RUNTIME_CHECK(w > 0)
    THEN /\ call' = [NoCall("addModel") EXCEPT !.weight = w, !.threw = TRUE]
         /\ UNCHANGED <<kind, m_models, m_weight, m_weightSum, m_outputDim, declaredDim>>
    ELSE /\ Len(m_models) < MaxModels
         /\ m_models' = Append(m_models, model)
         /\ m_weight' = Append(m_weight, w)
         /\ m_weightSum' = fadd(m_weightSum, w)
         /\ call' = [NoCall("addModel") EXCEPT !.weight = w]
         /\ UNCHANGED <<kind, m_outputDim, declaredDim>>

setWeight(i, newWeight) ==
    /\ i < Len(m_models)
    /\ m_weightSum' = fadd(m_weightSum, fsub(newWeight, m_weight[i + 1]))
    /\ m_weight' = [m_weight EXCEPT ![i + 1] = newWeight]
    /\ call' = NoCall("setWeight")
    /\ UNCHANGED <<kind, m_models, m_outputDim, declaredDim>>

setOutputSize(dim) ==
    /\ m_outputDim' = dim
    /\ declaredDim' = dim
    /\ call' = NoCall("setOutputSize")
    /\ UNCHANGED <<kind, m_models, m_weight, m_weightSum>>

Eval(patterns, outputs) ==
    \* the call and, after it, the buffer and whether the call threw
    /\ call' = [op |-> "eval", weight |-> 0, patterns |-> patterns]
                   @@ eval(patterns, outputs)
    /\ UNCHANGED <<kind, m_models, m_weight, m_weightSum, m_outputDim, declaredDim>>

ClearModels == clearModels /\ UNCHANGED efVars

AddModel == \E model \in ModelIds, w \in AddWeights : addModel(model, w) /\ UNCHANGED efVars

SetWeight ==
    \E i \in 0 .. MaxModels - 1, w \in SetWeights : setWeight(i, w) /\ UNCHANGED efVars

SetOutputSize == \E dim \in Dims : setOutputSize(dim) /\ UNCHANGED efVars

EvalBatch ==
    \E patterns \in Batches, outputs \in OldBuffers :
        Eval(patterns, outputs) /\ UNCHANGED efVars

\* ----------------------------------------------------- ErrorFunction
Wrappers     == {1, 2}            \* dataset / model / loss triples
Regularizers == {1, 2}            \* regularizer objective functions
Factors      == {-1, 0, 1, 2, 16} \* regularization factors
Params       == 0 .. 3            \* parameter vectors

\* mp_wrapper->eval(input): the error without regularization
WrapperEval(w, input) == (w * input + 1) % 5

\* m_regularizer->eval(input)
RegularizerEval(r, input) == (r + 2 * input) % 4

\* ErrorFunction(dataset, model, loss): no regularizer
InitEF ==
    /\ mp_wrapper \in Wrappers
    /\ m_regularizer = 0
    /\ m_regularizationStrength = 0
    /\ efCall = [op |-> "ErrorFunction", input |-> 0, value |-> 0,
                 factor |-> 0, regularizer |-> 0]

\* variant: a non-positive factor is refused and the call changes nothing
setRegularizerPositiveOnly(factor, regularizer) ==
    /\ m_regularizer' = IF factor > 0 THEN regularizer ELSE m_regularizer
    /\ m_regularizationStrength' = IF factor > 0 THEN factor ELSE m_regularizationStrength
    /\ efCall' = [op |-> "setRegularizer", input |-> 0, value |-> 0,
                  factor |-> factor, regularizer |-> regularizer]
    /\ UNCHANGED mp_wrapper

setRegularizer(factor, regularizer) ==
    /\ m_regularizer' = regularizer
    /\ m_regularizationStrength' = factor
    /\ efCall' = [op |-> "setRegularizer", input |-> 0, value |-> 0,
                  factor |-> factor, regularizer |-> regularizer]
    /\ UNCHANGED mp_wrapper

\* double ErrorFunction::eval(input) const
evalError(input) ==
    LET value == WrapperEval(mp_wrapper, input)
    IN  IF m_regularizer # 0
        THEN fadd(value, fmul(m_regularizationStrength,
                              RegularizerEval(m_regularizer, input)))
        ELSE value

EvalError(input) ==
    /\ efCall' = [efCall EXCEPT !.op = "eval", !.input = input,
                                !.value = evalError(input)]
    /\ UNCHANGED <<mp_wrapper, m_regularizer, m_regularizationStrength>>

SetRegularizer ==
    \E factor \in Factors, regularizer \in Regularizers \cup {0} :
        setRegularizer(factor, regularizer) /\ UNCHANGED meanVars

EvalErrorFunction == \E input \in Params : EvalError(input) /\ UNCHANGED meanVars

NextEF == SetRegularizer \/ EvalErrorFunction

\* the ensemble is explored with one fixed ErrorFunction, and vice versa
Init == InitMean /\ InitEF /\ mp_wrapper = 1

InitError == InitMean /\ InitEF /\ kind = "RealVector" /\ m_outputDim = 0

Next == ClearModels \/ AddModel \/ SetWeight \/ SetOutputSize \/ EvalBatch

Spec == Init /\ [][Next]_vars

SpecEF == InitError /\ [][NextEF]_vars

\* ============================================================ claims
\* helpers of the claims
RECURSIVE SumExact(_)
SumExact(w) == IF w = <<>> THEN 0 ELSE SumExact(SubSeq(w, 1, Len(w) - 1)) + w[Len(w)]

RECURSIVE SumDouble(_)
SumDouble(w) ==
    IF w = <<>> THEN 0 ELSE fadd(SumDouble(SubSeq(w, 1, Len(w) - 1)), w[Len(w)])

ModelIndices == 0 .. numberOfModels - 1

EnsembleState == <<m_models, m_weight, m_weightSum, m_outputDim>>

Evaluated == call.op = "eval" /\ ~call.threw

Rows == 0 .. Len(call.patterns) - 1

Columns == 0 .. outputSize - 1

\* the quotient q = <<a, b>> is the number v
QuotientIs(q, v) == q[2] # 0 /\ q[1] = v * q[2]

\* the quotient q = <<a, b>> is the number n / d
QuotientIsRatio(q, n, d) == q[2] # 0 /\ q[1] * d = n * q[2]

\* ---- C1
\* C1: in every reachable state the stored weight sum m_weightSum equals the
\* sum of the current weights weight(0 .. numberOfModels-1) (the sum taken
\* exactly, or accumulated in double arithmetic in index order), and it is 0
\* right after construction and right after clearModels().
C1_WeightSumIsSumOfWeights ==
    /\ m_weightSum = SumExact(m_weight) \/ m_weightSum = SumDouble(m_weight)
    /\ call.op \in {"MeanModel", "clearModels"} => m_weightSum = 0

\* ---- C2
\* C2: addModel(model, weight) with weight <= 0 throws, and the sub-models,
\* the weights, the weight sum and the output dimension are what they were
\* before the call.
C2_RejectedAddLeavesState ==
    [][(call'.op = "addModel" /\ call'.weight <= 0)
          => (call'.threw /\ EnsembleState' = EnsembleState)]_vars

C2_Witness ==
    /\ call.op = "addModel" /\ call.weight <= 0 /\ call.threw
    /\ numberOfModels = 2 /\ m_weightSum # 0

\* ---- C3
\* C3: in every reachable state weight(i) > 0 for every i < numberOfModels().
C3_WeightsPositive == \A i \in ModelIndices : weight(i) > 0

\* ---- C10
\* C10: in every reachable state with numberOfModels() >= 1 the weight sum
\* eval divides by is strictly positive.
C10_NonEmptyHasPositiveSum == numberOfModels >= 1 => m_weightSum > 0

\* ---- C4
\* the sub-model at index i predicts class c for row p of the evaluated batch
VotesFor(i, p, c) == Predict(m_models[i + 1], call.patterns[p + 1]) = c

\* the weights of the first n sub-models that vote c on row p, added in index order
RECURSIVE VoteSum(_, _, _)
VoteSum(p, c, n) ==
    IF n = 0 THEN 0
    ELSE IF VotesFor(n - 1, p, c)
         THEN fadd(VoteSum(p, c, n - 1), weight(n - 1))
         ELSE VoteSum(p, c, n - 1)

ModelOutput(i, p, c) == Value(m_models[i + 1], call.patterns[p + 1], c)

\* weight(i) * model_i(batch) at (p, c), added over the first n sub-models
RECURSIVE WeightedSum(_, _, _)
WeightedSum(p, c, n) ==
    IF n = 0 THEN 0
    ELSE fadd(WeightedSum(p, c, n - 1), fmul(weight(n - 1), ModelOutput(n - 1, p, c)))

RawOutput(p, c) ==
    IF kind = "RealVector" THEN ModelOutput(0, p, c)
    ELSE IF VotesFor(0, p, c) THEN 1 ELSE 0

\* C6: an ensemble that holds exactly one sub-model, of weight 1, evaluates
\* to exactly that sub-model's raw output.
C6_SingleModelRawOutput ==
    (Evaluated /\ numberOfModels = 1 /\ weight(0) = 1) =>
        \A p \in Rows, c \in Columns : QuotientIs(At(call.outputs, p, c), RawOutput(p, c))

\* ---- C7
\* some sub-model's output does not fit the declared output size
Mismatch ==
    IF kind = "RealVector"
    THEN numberOfModels >= 1 /\ ModelCols # outputSize
    ELSE \E i \in ModelIndices, p \in Rows : ~(Predict(m_models[i + 1], call.patterns[p + 1]) < outputSize)

C8_OutputSizeExplicit ==
    /\ [](   (Evaluated /\ declaredDim # -1)
          => (/\ call.outputs.size2 = declaredDim
              /\ call.outputs.size1 = Len(call.patterns)
              /\ DOMAIN call.outputs.elem = Cells(Len(call.patterns), declaredDim)))
    /\ [][(call'.op \in {"addModel", "setWeight", "clearModels"})
             => outputSize' = outputSize]_vars

C8_Witness ==
    /\ Evaluated /\ declaredDim = 3 /\ numberOfModels = 2
    /\ call.outputs.size2 = 3 /\ call.outputs.size1 = 2

\* ---- C9
\* C9: after setRegularizer(c, R), eval(p) = baseError(p) + c * R(p) for
\* every p and every factor c, positive or not, where baseError(p) is what
\* eval(p) returns with no regularizer; setRegularizer leaves the wrapped
\* dataset / model / loss alone.
C9_RegularizedEval ==
    /\ [](efCall.op = "eval" =>
             efCall.value =
                 IF efCall.regularizer # 0
                 THEN fadd(WrapperEval(mp_wrapper, efCall.input),
                           fmul(efCall.factor,
                                RegularizerEval(efCall.regularizer, efCall.input)))
                 ELSE WrapperEval(mp_wrapper, efCall.input))
    /\ [][efCall'.op = "setRegularizer" => mp_wrapper' = mp_wrapper]_vars

C9_Witness ==
    /\ efCall.op = "eval" /\ efCall.factor = -1 /\ efCall.regularizer # 0
    /\ RegularizerEval(efCall.regularizer, efCall.input) # 0
    /\ efCall.value = WrapperEval(mp_wrapper, efCall.input)
                        - RegularizerEval(efCall.regularizer, efCall.input)

====
